---- MODULE Spec2Model ----
(***************************************************************************)
(* Model of queue.c: a queue of owned strings kept in an intrusive,        *)
(* circular, doubly-linked list with a sentinel.  Memory is modelled at    *)
(* the level of the link fields: every element node has an address, a      *)
(* next and a prev pointer and a string; the sentinel has an address and   *)
(* the two pointers.  Every q_* function is an operator from the heap to   *)
(* the heap it leaves behind, and an action that applies it.               *)
(***************************************************************************)
EXTENDS Integers, Sequences, FiniteSets, TLC

\* ------------------------------------------------------------------ bounds
MaxNodes == 6        \* element nodes the allocator can hand out
MaxLive  == 3        \* elements allocated at once when the caller inserts freely
MaxLen   == 5        \* longest queue the algorithms are started on in SpecAlg
MaxCalls == 2        \* calls made on each of those queues in SpecAlg
MaxOps   == 5        \* successful inserts counted in SpecCount
MaxBuf   == 4        \* largest output buffer handed to q_remove_* in SpecBuf

\* --------------------------------------------------------------- addresses
NULL     == 0
Elems    == 1..MaxNodes                 \* addresses of element nodes
HeadAddr == MaxNodes + 1                \* address of the sentinel
Addrs    == Elems \cup {HeadAddr}
Detached == MaxNodes + 2                \* link field of an unlinked or unallocated node

\* C strings: bytes followed by the terminator 0
Strings == { <<1, 0>>, <<1, 2, 0>>, <<2, 0>> }
NoStr   == << >>

\* size_t arithmetic is modular; the width is scaled down to 16 bits
SizeMod == 2 ^ 16
NoBuf   == [cap |-> 0, bytes |-> << >>, oob |-> FALSE]      \* sp = NULL
Junk    == 255                          \* a byte of the caller's buffer not yet written

VARIABLES
    q,          \* the caller's queue handle: NULL or the sentinel's address
    next,       \* next[n]: the next field of node n
    prev,       \* prev[n]: the prev field of node n
    value,      \* value[e]: the string owned by element e
    allocated,  \* element nodes currently allocated
    held,       \* elements returned by q_remove_* and not yet released
    op,         \* name of the last function called
    arg,        \* its string argument (NoStr when it has none)
    ret,        \* its return value (bool as 0/1, pointer as address, void as 0)
    old,        \* the queue's elements before the call, as <<address, string>> pairs
    prior,      \* what the call before the last one saw, kept for paired calls
    buf,        \* the output buffer handed to the last q_remove_* call
    ins,        \* SpecCount: inserts that returned true
    rem,        \* SpecCount: removes that returned an element
    calls,      \* SpecAlg: calls made so far
    run         \* SpecSteps: the function in progress, its position and its locals

heapvars == <<q, next, prev, value, allocated, held>>
obsvars  == <<op, arg, ret, old, prior, buf>>
cntvars  == <<ins, rem, calls>>
vars     == <<q, next, prev, value, allocated, held, op, arg, ret, old, prior, buf, ins, rem, calls, run>>

\* ------------------------------------------------------------- libc helpers
RECURSIVE strcmp_from(_, _, _)
strcmp_from(s1, s2, i) ==
    IF s1[i] # s2[i] THEN s1[i] - s2[i]
    ELSE IF s1[i] = 0 THEN 0
    ELSE strcmp_from(s1, s2, i + 1)

\* strcmp: difference of the first bytes that differ, 0 when both end together
strcmp(s1, s2) == strcmp_from(s1, s2, 1)

RECURSIVE strlen_from(_, _)
strlen_from(s, i) == IF s[i] = 0 THEN 0 ELSE 1 + strlen_from(s, i + 1)

strlen(s) == strlen_from(s, 1)

\* strdup: a fresh copy of the bytes up to and including the terminator
strdup(s) == [i \in 1..(strlen(s) + 1) |-> s[i]]

RECURSIVE BitOr(_, _)
BitOr(a, b) ==
    IF a = 0 THEN b
    ELSE IF b = 0 THEN a
    ELSE (IF a % 2 = 1 \/ b % 2 = 1 THEN 1 ELSE 0) + 2 * BitOr(a \div 2, b \div 2)

\* malloc of an element: the lowest free address
malloc(alloc) == CHOOSE e \in Elems \ alloc : \A f \in Elems \ alloc : e <= f

\* ------------------------------------------------- list primitives (list.h)
\* A heap h is a record [next, prev, value, alloc].

INIT_LIST_HEAD(h, head) ==
    [h EXCEPT !.next[head] = head, !.prev[head] = head]

list_empty(h, head) == h.next[head] = head

list_is_singular(h, head) ==
    (~list_empty(h, head)) /\ h.prev[head] = h.next[head]

\* insert node right after head
list_add(h, node, head) ==
    LET nxt == h.next[head] IN
    [h EXCEPT !.prev[nxt]  = node,
              !.next[node] = nxt,
              !.prev[node] = head,
              !.next[head] = node]

\* insert node right before head
list_add_tail(h, node, head) ==
    LET prv == h.prev[head] IN
    [h EXCEPT !.next[prv]  = node,
              !.next[node] = head,
              !.prev[node] = prv,
              !.prev[head] = node]

\* unlink node; its own link fields are left detached
list_del(h, node) ==
    LET nxt == h.next[node]
        prv == h.prev[node] IN
    [h EXCEPT !.prev[nxt]  = prv,
              !.next[prv]  = nxt,
              !.prev[node] = Detached,
              !.next[node] = Detached]

list_move(h, node, head) == list_add(list_del(h, node), node, head)

\* free of an element node and its string
free_element(h, e) ==
    [h EXCEPT !.alloc = @ \ {e},
              !.value[e] = NoStr,
              !.next[e] = Detached,
              !.prev[e] = Detached]

\* ---------------------------------------------------------- reading a queue
RECURSIVE Walk(_, _, _, _)
Walk(nx, head, n, fuel) ==
    IF n = head \/ n \notin Elems \/ fuel = 0 THEN << >>
    ELSE <<n>> \o Walk(nx, head, nx[n], fuel - 1)

\* the element addresses met by list_for_each from head
ElemsOf(h, head) ==
    IF head = NULL THEN << >> ELSE Walk(h.next, head, h.next[head], MaxNodes + 1)

Heap == [next |-> next, prev |-> prev, value |-> value, alloc |-> allocated]

Queue    == ElemsOf(Heap, q)                                  \* addresses, first to last
Strs     == [i \in 1..Len(Queue) |-> value[Queue[i]]]         \* strings, first to last
Contents == [i \in 1..Len(Queue) |-> <<Queue[i], value[Queue[i]]>>]

OldQueue == [i \in 1..Len(old) |-> old[i][1]]
OldStrs  == [i \in 1..Len(old) |-> old[i][2]]

\* ------------------------------------------------------------ the functions
\* Every q_* operator takes the heap and the arguments of the C function and
\* yields the heap it leaves and the value it returns.

\* q_new: allocate the sentinel (mOk: malloc succeeds) and make it empty
q_new(h, mOk) ==
    IF mOk THEN [h |-> INIT_LIST_HEAD(h, HeadAddr), ret |-> HeadAddr]
    ELSE [h |-> h, ret |-> NULL]

RECURSIVE free_entries(_, _, _)
\* list_for_each_entry_safe body of q_free: release entry, go on with next
free_entries(h, l, entry) ==
    IF entry = l THEN h
    ELSE LET nxt == h.next[entry] IN free_entries(free_element(h, entry), l, nxt)

\* q_free that releases the sentinel and none of the entries
q_free_shallow(h, l) ==
    IF l = NULL THEN h
    ELSE [h EXCEPT !.next[l] = Detached, !.prev[l] = Detached]

q_free(h, l) ==
    IF l = NULL THEN h
    ELSE LET h1 == free_entries(h, l, h.next[l]) IN
         [h1 EXCEPT !.next[l] = Detached, !.prev[l] = Detached]

\* q_insert_head that reports success although strdup failed
q_insert_head_true(h, head, s, mOk, sOk) ==
    IF head = NULL THEN [h |-> h, ret |-> 0]
    ELSE IF ~mOk THEN [h |-> h, ret |-> 0]
    ELSE LET e  == malloc(h.alloc)
             h1 == [h EXCEPT !.alloc = @ \cup {e}] IN
         IF ~sOk THEN [h |-> free_element(h1, e), ret |-> 1]
         ELSE [h |-> list_add([h1 EXCEPT !.value[e] = strdup(s)], e, head), ret |-> 1]

q_insert_head(h, head, s, mOk, sOk) ==
    IF head = NULL THEN [h |-> h, ret |-> 0]
    ELSE IF ~mOk THEN [h |-> h, ret |-> 0]
    ELSE LET e  == malloc(h.alloc)
             h1 == [h EXCEPT !.alloc = @ \cup {e}] IN
         IF ~sOk THEN [h |-> free_element(h1, e), ret |-> 0]
         ELSE [h |-> list_add([h1 EXCEPT !.value[e] = strdup(s)], e, head), ret |-> 1]

\* q_insert_tail that forgets free(e) when strdup fails
q_insert_tail_leak(h, head, s, mOk, sOk) ==
    IF head = NULL THEN [h |-> h, ret |-> 0]
    ELSE IF ~mOk THEN [h |-> h, ret |-> 0]
    ELSE LET e  == malloc(h.alloc)
             h1 == [h EXCEPT !.alloc = @ \cup {e}] IN
         IF ~sOk THEN [h |-> h1, ret |-> 0]
         ELSE [h |-> list_add_tail([h1 EXCEPT !.value[e] = strdup(s)], e, head), ret |-> 1]

q_insert_tail(h, head, s, mOk, sOk) ==
    IF head = NULL THEN [h |-> h, ret |-> 0]
    ELSE IF ~mOk THEN [h |-> h, ret |-> 0]
    ELSE LET e  == malloc(h.alloc)
             h1 == [h EXCEPT !.alloc = @ \cup {e}] IN
         IF ~sOk THEN [h |-> free_element(h1, e), ret |-> 0]
         ELSE [h |-> list_add_tail([h1 EXCEPT !.value[e] = strdup(s)], e, head), ret |-> 1]

\* strncpy(sp, src, n): exactly n bytes are written, the string's bytes and
\* then zeros; a write past the buffer's capacity is recorded in oob
strncpy(b, src, n) ==
    [b EXCEPT !.bytes = [i \in 1..b.cap |->
                            IF i <= n
                            THEN (IF i <= strlen(src) THEN src[i] ELSE 0)
                            ELSE b.bytes[i]],
              !.oob = @ \/ n > b.cap]

\* sp[i] = c
poke(b, i, c) ==
    IF i < b.cap THEN [b EXCEPT !.bytes[i + 1] = c] ELSE [b EXCEPT !.oob = TRUE]

\* the copy-out of q_remove_head and q_remove_tail (sp non-NULL)
copy_out(b, str, bufsize) ==
    LET n == (bufsize - 1) % SizeMod IN poke(strncpy(b, str, n), n, 0)

\* q_remove_head that takes the last entry, as q_remove_tail does
q_remove_head_last(h, head, sp, b, bufsize) ==
    IF head = NULL \/ list_empty(h, head) THEN [h |-> h, ret |-> NULL, buf |-> b]
    ELSE LET e == h.prev[head] IN
         [h   |-> list_del(h, e),
          ret |-> e,
          buf |-> IF sp THEN copy_out(b, h.value[e], bufsize) ELSE b]

q_remove_head(h, head, sp, b, bufsize) ==
    IF head = NULL \/ list_empty(h, head) THEN [h |-> h, ret |-> NULL, buf |-> b]
    ELSE LET e == h.next[head] IN
         [h   |-> list_del(h, e),
          ret |-> e,
          buf |-> IF sp THEN copy_out(b, h.value[e], bufsize) ELSE b]

\* q_remove_tail that takes the first entry, as q_remove_head does
q_remove_tail_first(h, head, sp, b, bufsize) ==
    IF head = NULL \/ list_empty(h, head) THEN [h |-> h, ret |-> NULL, buf |-> b]
    ELSE LET e == h.next[head] IN
         [h   |-> list_del(h, e),
          ret |-> e,
          buf |-> IF sp THEN copy_out(b, h.value[e], bufsize) ELSE b]

q_remove_tail(h, head, sp, b, bufsize) ==
    IF head = NULL \/ list_empty(h, head) THEN [h |-> h, ret |-> NULL, buf |-> b]
    ELSE LET e == h.prev[head] IN
         [h   |-> list_del(h, e),
          ret |-> e,
          buf |-> IF sp THEN copy_out(b, h.value[e], bufsize) ELSE b]

q_release_element(h, e) == free_element(h, e)

RECURSIVE count_nodes(_, _, _, _)
\* list_for_each of q_size; fuel bounds the walk of a list that never closes
count_nodes(h, head, node, fuel) ==
    IF node = head \/ node \notin Addrs \/ fuel = 0 THEN 0
    ELSE 1 + count_nodes(h, head, h.next[node], fuel - 1)

q_size(h, head) ==
    IF head = NULL \/ list_empty(h, head) THEN 0
    ELSE count_nodes(h, head, h.next[head], MaxNodes + 1)

RECURSIVE mid_loop_early(_, _, _, _)
\* the loop stopping as soon as fewer than two nodes lie ahead of fast
mid_loop_early(h, head, fast, slow) ==
    IF h.next[fast] # head /\ h.next[h.next[fast]] # head
    THEN mid_loop_early(h, head, h.next[h.next[fast]], h.next[slow])
    ELSE slow

RECURSIVE mid_loop(_, _, _, _)
\* the fast/slow loop of q_delete_mid; yields slow
mid_loop(h, head, fast, slow) ==
    IF fast # head /\ h.next[fast] # head
    THEN mid_loop(h, head, h.next[h.next[fast]], h.next[slow])
    ELSE slow

\* q_delete_mid deleting the node before the middle of an even-length queue
q_delete_mid_early(h, head) ==
    IF head = NULL \/ list_empty(h, head) THEN [h |-> h, ret |-> 0]
    ELSE LET slow == mid_loop_early(h, head, h.next[head], h.next[head]) IN
         [h |-> q_release_element(list_del(h, slow), slow), ret |-> 1]

q_delete_mid(h, head) ==
    IF head = NULL \/ list_empty(h, head) THEN [h |-> h, ret |-> 0]
    ELSE LET slow == mid_loop(h, head, h.next[head], h.next[head]) IN
         [h |-> q_release_element(list_del(h, slow), slow), ret |-> 1]

RECURSIVE dup_loop_keep(_, _, _, _)
\* the loop without the dup flag: the last node of a run survives
dup_loop_keep(h, head, node, dup) ==
    IF node = head THEN h
    ELSE LET safe == h.next[node] IN
         IF h.next[node] # head /\ strcmp(h.value[node], h.value[h.next[node]]) = 0
         THEN dup_loop_keep(q_release_element(list_del(h, node), node), head, safe, TRUE)
         ELSE dup_loop_keep(h, head, safe, dup)

RECURSIVE dup_loop(_, _, _, _)
\* list_for_each_entry_safe body of q_delete_dup; safe is read before the body
dup_loop(h, head, node, dup) ==
    IF node = head THEN h
    ELSE LET safe == h.next[node] IN
         IF h.next[node] # head /\ strcmp(h.value[node], h.value[h.next[node]]) = 0
         THEN dup_loop(q_release_element(list_del(h, node), node), head, safe, TRUE)
         ELSE IF dup
         THEN dup_loop(q_release_element(list_del(h, node), node), head, safe, FALSE)
         ELSE dup_loop(h, head, safe, dup)

\* q_delete_dup that reports success for an absent queue
q_delete_dup_absent(h, head) ==
    IF head = NULL THEN [h |-> h, ret |-> 1]
    ELSE IF list_empty(h, head) \/ list_is_singular(h, head) THEN [h |-> h, ret |-> 1]
    ELSE [h |-> dup_loop(h, head, h.next[head], FALSE), ret |-> 1]

q_delete_dup(h, head) ==
    IF head = NULL THEN [h |-> h, ret |-> 0]
    ELSE IF list_empty(h, head) \/ list_is_singular(h, head) THEN [h |-> h, ret |-> 1]
    ELSE [h |-> dup_loop(h, head, h.next[head], FALSE), ret |-> 1]

RECURSIVE swap_loop_add(_, _, _)
\* the loop putting tmp back after node (list_add) instead of before it
swap_loop_add(h, head, node) ==
    IF node # head /\ h.next[node] # head
    THEN LET tmp == h.next[node]
             h1  == list_add(list_del(h, tmp), tmp, node) IN
         swap_loop_add(h1, head, h1.next[node])
    ELSE h

RECURSIVE swap_loop_del(_, _, _)
\* the loop that unlinks tmp and never links it again
swap_loop_del(h, head, node) ==
    IF node # head /\ h.next[node] # head
    THEN LET tmp == h.next[node]
             h1  == list_del(h, tmp) IN
         swap_loop_del(h1, head, h1.next[node])
    ELSE h

RECURSIVE swap_loop(_, _, _)
\* the for loop of q_swap: move node's successor in front of node
swap_loop(h, head, node) ==
    IF node # head /\ h.next[node] # head
    THEN LET tmp == h.next[node]
             h1  == list_add_tail(list_del(h, tmp), tmp, node) IN
         swap_loop(h1, head, h1.next[node])
    ELSE h

q_swap(h, head) ==
    IF head = NULL \/ list_empty(h, head) \/ list_is_singular(h, head) THEN h
    ELSE swap_loop(h, head, h.next[head])

RECURSIVE reverse_loop_short(_, _, _)
\* the loop stopping one node early: the last node is never moved
reverse_loop_short(h, head, node) ==
    IF node = head \/ h.next[node] = head THEN h
    ELSE LET safe == h.next[node] IN
         reverse_loop_short(list_move(h, node, head), head, safe)

RECURSIVE reverse_loop(_, _, _)
\* list_for_each_safe body of q_reverse: move node to the front
reverse_loop(h, head, node) ==
    IF node = head THEN h
    ELSE LET safe == h.next[node] IN reverse_loop(list_move(h, node, head), head, safe)

q_reverse(h, head) ==
    IF head = NULL \/ list_empty(h, head) \/ list_is_singular(h, head) THEN h
    ELSE reverse_loop(h, head, h.next[head])

\* ------------------------------------------------------------------- q_sort
\* ptr of mergeTwoLists is a place: NULL stands for &head, an address n for
\* &n->next.
RECURSIVE merge_loop_left(_, _, _, _, _)
\* the merge splicing in only what is left of l1 when the loop ends
merge_loop_left(h, l1, l2, head, ptr) ==
    IF l1 # NULL /\ l2 # NULL
    THEN LET first == strcmp(h.value[l1], h.value[l2]) < 0
             node  == IF first THEN l1 ELSE l2
             h1    == IF ptr = NULL THEN h ELSE [h EXCEPT !.next[ptr] = node]
             head1 == IF ptr = NULL THEN node ELSE head
         IN  merge_loop_left(h1,
                             IF first THEN h1.next[l1] ELSE l1,
                             IF first THEN l2 ELSE h1.next[l2],
                             head1, node)
    ELSE LET rest == l1 IN
         [h    |-> IF ptr = NULL THEN h ELSE [h EXCEPT !.next[ptr] = rest],
          head |-> IF ptr = NULL THEN rest ELSE head]

RECURSIVE merge_loop(_, _, _, _, _)
merge_loop(h, l1, l2, head, ptr) ==
    IF l1 # NULL /\ l2 # NULL
    THEN LET first == strcmp(h.value[l1], h.value[l2]) < 0       \* node = &l1
             node  == IF first THEN l1 ELSE l2
             h1    == IF ptr = NULL THEN h ELSE [h EXCEPT !.next[ptr] = node]
             head1 == IF ptr = NULL THEN node ELSE head
         IN  merge_loop(h1,
                        IF first THEN h1.next[l1] ELSE l1,
                        IF first THEN l2 ELSE h1.next[l2],
                        head1, node)
    ELSE LET rest == BitOr(l1, l2) IN
         [h    |-> IF ptr = NULL THEN h ELSE [h EXCEPT !.next[ptr] = rest],
          head |-> IF ptr = NULL THEN rest ELSE head]

mergeTwoLists(h, l1, l2) == merge_loop(h, l1, l2, NULL, NULL)

RECURSIVE split_loop(_, _, _)
\* the fast/slow loop of mergesort; yields slow
split_loop(h, fast, slow) ==
    IF fast = NULL \/ h.next[fast] = NULL THEN slow
    ELSE split_loop(h, h.next[h.next[fast]], h.next[slow])

RECURSIVE mergesort(_, _)
mergesort(h, head) ==
    IF h.next[head] = NULL THEN [h |-> h, head |-> head]
    ELSE LET slow == split_loop(h, head, head)
             mid  == slow
             h1   == [h EXCEPT !.next[h.prev[slow]] = NULL]
             r1   == mergesort(h1, head)
             r2   == mergesort(r1.h, mid)
         IN  mergeTwoLists(r2.h, r1.head, r2.head)

RECURSIVE relink_loop(_, _)
\* the while loop of q_sort; yields the heap and the last node
relink_loop(h, tmp) ==
    IF h.next[tmp] # NULL
    THEN relink_loop([h EXCEPT !.prev[h.next[tmp]] = tmp], h.next[tmp])
    ELSE [h |-> h, tmp |-> tmp]

\* q_sort that re-attaches the chain but leaves the sentinel's prev as it was
q_sort_noprev(h, head) ==
    IF head = NULL \/ list_empty(h, head) \/ list_is_singular(h, head) THEN h
    ELSE LET node == h.next[head]
             h1   == [h EXCEPT !.next[h.prev[head]] = NULL]
             h2   == [h1 EXCEPT !.next[head] = NULL]
             r    == mergesort(h2, node)
             h3   == [r.h EXCEPT !.next[head] = r.head]
             w    == relink_loop(h3, head)
         IN  [w.h EXCEPT !.next[w.tmp] = head]

q_sort(h, head) ==
    IF head = NULL \/ list_empty(h, head) \/ list_is_singular(h, head) THEN h
    ELSE LET node == h.next[head]
             h1   == [h EXCEPT !.next[h.prev[head]] = NULL]
             h2   == [h1 EXCEPT !.next[head] = NULL]
             r    == mergesort(h2, node)
             h3   == [r.h EXCEPT !.next[head] = r.head]
             w    == relink_loop(h3, head)
             h4   == [w.h EXCEPT !.next[w.tmp] = head]
         IN  [h4 EXCEPT !.prev[head] = w.tmp]

\* ------------------------------------------------------------------ actions
\* no function in progress
Idle ==
    [fn |-> "none", pc |-> "idle", fast |-> NULL, slow |-> NULL, node |-> NULL,
     safe |-> NULL, tmp |-> NULL, dup |-> FALSE, stack |-> << >>, retv |-> 0,
     head |-> NULL, h0 |-> << >>]

NoPrior == [op |-> "none", arg |-> NoStr, ret |-> 0, old |-> << >>]
NoCount == 0 - 1                           \* the counters are not kept

\* calls checked as a pair: insert then remove at the same end, reverse twice
Paired(first, second) ==
    \/ first = "q_insert_head" /\ second = "q_remove_head"
    \/ first = "q_insert_tail" /\ second = "q_remove_tail"
    \/ first = "q_reverse"     /\ second = "q_reverse"

\* what the caller records around a call of function name with string a
Observe(name, a) ==
    /\ calls < MaxCalls                 \* SpecAlg stops after MaxCalls calls
    /\ op'    = name
    /\ arg'   = a
    /\ old'   = Contents
    /\ prior' = IF Paired(op, name)
                THEN [op |-> op, arg |-> arg, ret |-> ret, old |-> old]
                ELSE NoPrior
    /\ calls' = IF calls = NoCount THEN calls ELSE calls + 1
    /\ run'   = run

SetHeap(h) ==
    /\ next'      = h.next
    /\ prev'      = h.prev
    /\ value'     = h.value
    /\ allocated' = h.alloc

\* the counters of SpecCount advance by i inserts and r removes
Count(i, r) ==
    /\ ins' = IF ins = NoCount THEN ins ELSE ins + i
    /\ rem' = IF rem = NoCount THEN rem ELSE rem + r

Call_q_new ==
    /\ q = NULL
    /\ \E mOk \in BOOLEAN :
         LET r == q_new(Heap, mOk) IN
         /\ SetHeap(r.h)
         /\ q'   = r.ret
         /\ ret' = r.ret
    /\ Observe("q_new", NoStr)
    /\ buf' = NoBuf
    /\ UNCHANGED <<held, ins, rem>>

Call_q_free ==
    /\ SetHeap(q_free(Heap, q))
    /\ q'   = NULL
    /\ ret' = 0
    /\ Observe("q_free", NoStr)
    /\ buf' = NoBuf
    /\ UNCHANGED <<held, ins, rem>>

\* an insert whose allocations succeed needs a free address
CanInsert(mOk) ==
    /\ (q # NULL /\ mOk) => Cardinality(allocated) < MaxLive
    /\ ins < MaxOps

Call_q_insert_head ==
    \E s \in Strings, mOk \in BOOLEAN, sOk \in BOOLEAN :
        /\ CanInsert(mOk)
        /\ LET r == q_insert_head(Heap, q, s, mOk, sOk) IN
           /\ SetHeap(r.h)
           /\ ret' = r.ret
           /\ Count(r.ret, 0)
        /\ Observe("q_insert_head", s)
        /\ buf' = NoBuf
        /\ UNCHANGED <<q, held>>

Call_q_insert_tail ==
    \E s \in Strings, mOk \in BOOLEAN, sOk \in BOOLEAN :
        /\ CanInsert(mOk)
        /\ LET r == q_insert_tail(Heap, q, s, mOk, sOk) IN
           /\ SetHeap(r.h)
           /\ ret' = r.ret
           /\ Count(r.ret, 0)
        /\ Observe("q_insert_tail", s)
        /\ buf' = NoBuf
        /\ UNCHANGED <<q, held>>

\* q_remove_head(q, NULL, 0)
Call_q_remove_head ==
    /\ held = {}                        \* the caller releases an element before it removes another
    /\ LET r == q_remove_head(Heap, q, FALSE, NoBuf, 0) IN
       /\ SetHeap(r.h)
       /\ ret'  = r.ret
       /\ buf'  = r.buf
       /\ held' = IF r.ret = NULL THEN held ELSE held \cup {r.ret}
       /\ Count(0, IF r.ret = NULL THEN 0 ELSE 1)
    /\ Observe("q_remove_head", NoStr)
    /\ UNCHANGED q

\* q_remove_tail(q, NULL, 0)
Call_q_remove_tail ==
    /\ held = {}                        \* the caller releases an element before it removes another
    /\ LET r == q_remove_tail(Heap, q, FALSE, NoBuf, 0) IN
       /\ SetHeap(r.h)
       /\ ret'  = r.ret
       /\ buf'  = r.buf
       /\ held' = IF r.ret = NULL THEN held ELSE held \cup {r.ret}
       /\ Count(0, IF r.ret = NULL THEN 0 ELSE 1)
    /\ Observe("q_remove_tail", NoStr)
    /\ UNCHANGED q

\* the caller's buffer of bufsize bytes, nothing written yet
FreshBuf(bufsize) ==
    [cap |-> bufsize, bytes |-> [i \in 1..bufsize |-> Junk], oob |-> FALSE]

\* q_remove_head(q, sp, bufsize) with a buffer of bufsize bytes
Call_q_remove_head_sp ==
    /\ held = {}
    /\ \E bufsize \in 0..MaxBuf :
         LET r == q_remove_head(Heap, q, TRUE, FreshBuf(bufsize), bufsize) IN
         /\ SetHeap(r.h)
         /\ ret'  = r.ret
         /\ buf'  = r.buf
         /\ held' = IF r.ret = NULL THEN held ELSE held \cup {r.ret}
         /\ Count(0, IF r.ret = NULL THEN 0 ELSE 1)
    /\ Observe("q_remove_head", NoStr)
    /\ UNCHANGED q

\* q_remove_tail(q, sp, bufsize) with a buffer of bufsize bytes
Call_q_remove_tail_sp ==
    /\ held = {}
    /\ \E bufsize \in 0..MaxBuf :
         LET r == q_remove_tail(Heap, q, TRUE, FreshBuf(bufsize), bufsize) IN
         /\ SetHeap(r.h)
         /\ ret'  = r.ret
         /\ buf'  = r.buf
         /\ held' = IF r.ret = NULL THEN held ELSE held \cup {r.ret}
         /\ Count(0, IF r.ret = NULL THEN 0 ELSE 1)
    /\ Observe("q_remove_tail", NoStr)
    /\ UNCHANGED q

\* the caller releases an element it got from q_remove_*
Call_q_release_element ==
    \E e \in held :
        /\ SetHeap(q_release_element(Heap, e))
        /\ held' = held \ {e}
        /\ ret'  = 0
        /\ Observe("q_release_element", NoStr)
        /\ buf' = NoBuf
        /\ UNCHANGED <<q, ins, rem>>

Call_q_size ==
    /\ ret' = q_size(Heap, q)
    /\ Observe("q_size", NoStr)
    /\ buf' = NoBuf
    /\ UNCHANGED <<heapvars, ins, rem>>

Call_q_delete_mid ==
    /\ LET r == q_delete_mid(Heap, q) IN
       /\ SetHeap(r.h)
       /\ ret' = r.ret
    /\ Observe("q_delete_mid", NoStr)
    /\ buf' = NoBuf
    /\ UNCHANGED <<q, held, ins, rem>>

Call_q_delete_dup ==
    /\ LET r == q_delete_dup(Heap, q) IN
       /\ SetHeap(r.h)
       /\ ret' = r.ret
    /\ Observe("q_delete_dup", NoStr)
    /\ buf' = NoBuf
    /\ UNCHANGED <<q, held, ins, rem>>

Call_q_swap ==
    /\ SetHeap(q_swap(Heap, q))
    /\ ret' = 0
    /\ Observe("q_swap", NoStr)
    /\ buf' = NoBuf
    /\ UNCHANGED <<q, held, ins, rem>>

Call_q_reverse ==
    /\ SetHeap(q_reverse(Heap, q))
    /\ ret' = 0
    /\ Observe("q_reverse", NoStr)
    /\ buf' = NoBuf
    /\ UNCHANGED <<q, held, ins, rem>>

Call_q_sort ==
    /\ SetHeap(q_sort(Heap, q))
    /\ ret' = 0
    /\ Observe("q_sort", NoStr)
    /\ buf' = NoBuf
    /\ UNCHANGED <<q, held, ins, rem>>

\* ----------------------------------------------------------- specifications
\* before q_new: no queue, nothing allocated
Init ==
    /\ q = NULL
    /\ next = [n \in Addrs |-> Detached]
    /\ prev = [n \in Addrs |-> Detached]
    /\ value = [e \in Elems |-> NoStr]
    /\ allocated = {}
    /\ held = {}
    /\ op = "none"
    /\ arg = NoStr
    /\ ret = 0
    /\ old = << >>
    /\ prior = NoPrior
    /\ buf = NoBuf
    /\ ins = NoCount
    /\ rem = NoCount
    /\ calls = NoCount
    /\ run = Idle

Next ==
    \/ Call_q_new
    \/ Call_q_free
    \/ Call_q_insert_head
    \/ Call_q_insert_tail
    \/ Call_q_remove_head
    \/ Call_q_remove_tail
    \/ Call_q_release_element
    \/ Call_q_size
    \/ Call_q_delete_mid
    \/ Call_q_delete_dup
    \/ Call_q_swap
    \/ Call_q_reverse
    \/ Call_q_sort

Spec == Init /\ [][Next]_vars

\* SpecAlg: the structural algorithms, started on every queue of at most
\* MaxLen strings as q_new and a run of q_insert_tail build it
RECURSIVE BuildQueue(_, _, _)
BuildQueue(h, strs, i) ==
    IF i > Len(strs) THEN h
    ELSE BuildQueue(q_insert_tail(h, HeadAddr, strs[i], TRUE, TRUE).h, strs, i + 1)

EmptyHeap ==
    [next  |-> [n \in Addrs |-> Detached],
     prev  |-> [n \in Addrs |-> Detached],
     value |-> [e \in Elems |-> NoStr],
     alloc |-> {}]

StringSeqs(n) == UNION { [1..k -> Strings] : k \in 0..n }

InitWith(h) ==
    /\ q = HeadAddr
    /\ next = h.next
    /\ prev = h.prev
    /\ value = h.value
    /\ allocated = h.alloc
    /\ held = {}
    /\ op = "none"
    /\ arg = NoStr
    /\ ret = 0
    /\ old = << >>
    /\ prior = NoPrior
    /\ buf = NoBuf
    /\ run = Idle

InitAlg ==
    /\ \E strs \in StringSeqs(MaxLen) : InitWith(BuildQueue(q_new(EmptyHeap, TRUE).h, strs, 1))
    /\ ins = NoCount
    /\ rem = NoCount
    /\ calls = 0

NextAlg ==
    \/ Call_q_delete_mid
    \/ Call_q_delete_dup
    \/ Call_q_swap
    \/ Call_q_reverse
    \/ Call_q_sort

SpecAlg == InitAlg /\ [][NextAlg]_vars

\* SpecSix: the six-element queue of the q_delete_mid documentation
SixStrings == << <<1, 0>>, <<2, 0>>, <<3, 0>>, <<4, 0>>, <<5, 0>>, <<6, 0>> >>

InitSix ==
    /\ InitWith(BuildQueue(q_new(EmptyHeap, TRUE).h, SixStrings, 1))
    /\ ins = NoCount
    /\ rem = NoCount
    /\ calls = NoCount

NextSix ==
    \/ Call_q_delete_mid
    \/ Call_q_swap
    \/ Call_q_reverse
    \/ Call_q_sort
    \/ Call_q_remove_head
    \/ Call_q_remove_tail
    \/ Call_q_release_element

SpecSix == InitSix /\ [][NextSix]_vars

\* SpecCount: inserts and removes on a ready queue that starts empty, counted
InitCount ==
    /\ InitWith(q_new(EmptyHeap, TRUE).h)
    /\ ins = 0
    /\ rem = 0
    /\ calls = NoCount

NextCount ==
    \/ Call_q_insert_head
    \/ Call_q_insert_tail
    \/ Call_q_remove_head
    \/ Call_q_remove_tail
    \/ Call_q_release_element

SpecCount == InitCount /\ [][NextCount]_vars

\* SpecBuf: q_remove_head and q_remove_tail with an output buffer, on every
\* queue of at most MaxLive strings
InitBuf ==
    /\ \E strs \in StringSeqs(MaxLive) : InitWith(BuildQueue(q_new(EmptyHeap, TRUE).h, strs, 1))
    /\ ins = NoCount
    /\ rem = NoCount
    /\ calls = NoCount

NextBuf ==
    \/ Call_q_remove_head_sp
    \/ Call_q_remove_tail_sp
    \/ Call_q_release_element

SpecBuf == InitBuf /\ [][NextBuf]_vars

\* ------------------------------------------------------ one step at a time
\* SpecSteps runs one function on a built queue statement by statement: run
\* holds the function, its position pc, its locals and, for q_sort, the
\* frames of mergesort that are open. A _begin operator is the code before
\* the loop, a _step operator one evaluation of the loop condition with the
\* body or the exit that follows it. Both yield the heap and the new run.
Done(h, r, v) == [h |-> h, r |-> [r EXCEPT !.pc = "done", !.retv = v]]

q_free_begin(h, l, r) ==
    IF l = NULL THEN Done(h, r, 0)
    ELSE [h |-> h, r |-> [r EXCEPT !.pc = "loop", !.node = h.next[l],
                                   !.safe = h.next[h.next[l]]]]

q_free_step(h, l, r) ==
    IF r.node # l
    THEN LET h1 == free_element(h, r.node) IN
         [h |-> h1, r |-> [r EXCEPT !.node = r.safe, !.safe = h1.next[r.safe]]]
    ELSE Done([h EXCEPT !.next[l] = Detached, !.prev[l] = Detached], r, 0)

q_delete_mid_begin(h, head, r) ==
    IF head = NULL \/ list_empty(h, head) THEN Done(h, r, 0)
    ELSE [h |-> h, r |-> [r EXCEPT !.pc = "loop", !.fast = h.next[head],
                                   !.slow = h.next[head]]]

\* the loop written for a null-terminated chain, on the circular list
q_delete_mid_step_null(h, head, r) ==
    IF r.fast # NULL /\ h.next[r.fast] # NULL
    THEN [h |-> h, r |-> [r EXCEPT !.fast = h.next[h.next[r.fast]],
                                   !.slow = h.next[r.slow]]]
    ELSE Done(q_release_element(list_del(h, r.slow), r.slow), r, 1)

q_delete_mid_step(h, head, r) ==
    IF r.fast # head /\ h.next[r.fast] # head
    THEN [h |-> h, r |-> [r EXCEPT !.fast = h.next[h.next[r.fast]],
                                   !.slow = h.next[r.slow]]]
    ELSE Done(q_release_element(list_del(h, r.slow), r.slow), r, 1)

q_delete_dup_begin(h, head, r) ==
    IF head = NULL THEN Done(h, r, 0)
    ELSE IF list_empty(h, head) \/ list_is_singular(h, head) THEN Done(h, r, 1)
    ELSE [h |-> h, r |-> [r EXCEPT !.pc = "loop", !.node = h.next[head],
                                   !.safe = h.next[h.next[head]], !.dup = FALSE]]

q_delete_dup_step(h, head, r) ==
    IF r.node = head THEN Done(h, r, 1)
    ELSE LET node == r.node
             del  == q_release_element(list_del(h, node), node)
             \* the increment of the for statement, after the body left heap g
             inc(g, d) == [h |-> g, r |-> [r EXCEPT !.node = r.safe,
                                                    !.safe = g.next[r.safe],
                                                    !.dup = d]] IN
         IF h.next[node] # head /\ strcmp(h.value[node], h.value[h.next[node]]) = 0
         THEN inc(del, TRUE)
         ELSE IF r.dup
         THEN inc(del, FALSE)
         ELSE inc(h, r.dup)

q_swap_begin(h, head, r) ==
    IF head = NULL \/ list_empty(h, head) \/ list_is_singular(h, head) THEN Done(h, r, 0)
    ELSE [h |-> h, r |-> [r EXCEPT !.pc = "loop", !.node = h.next[head]]]

q_swap_step(h, head, r) ==
    IF r.node # head /\ h.next[r.node] # head
    THEN LET tmp == h.next[r.node]
             h1  == list_add_tail(list_del(h, tmp), tmp, r.node) IN
         [h |-> h1, r |-> [r EXCEPT !.node = h1.next[r.node]]]
    ELSE Done(h, r, 0)

q_reverse_begin(h, head, r) ==
    IF head = NULL \/ list_empty(h, head) \/ list_is_singular(h, head) THEN Done(h, r, 0)
    ELSE [h |-> h, r |-> [r EXCEPT !.pc = "loop", !.node = h.next[head],
                                   !.safe = h.next[h.next[head]]]]

q_reverse_step(h, head, r) ==
    IF r.node # head
    THEN LET h1 == list_move(h, r.node, head) IN
         [h |-> h1, r |-> [r EXCEPT !.node = r.safe, !.safe = h1.next[r.safe]]]
    ELSE Done(h, r, 0)

\* q_size: retv is count
q_size_begin(h, head, r) ==
    IF head = NULL \/ list_empty(h, head) THEN Done(h, r, 0)
    ELSE [h |-> h, r |-> [r EXCEPT !.pc = "loop", !.node = h.next[head], !.retv = 0]]

q_size_step(h, head, r) ==
    IF r.node # head
    THEN [h |-> h, r |-> [r EXCEPT !.node = h.next[r.node], !.retv = r.retv + 1]]
    ELSE Done(h, r, r.retv)

\* a call of mergesort(head): its position and its locals; l1, l2, mh and ptr
\* are those of the mergeTwoLists call it ends with (mh is that function's
\* head, ptr a place as in merge_loop)
Frame(head) ==
    [pc |-> "entry", head |-> head, fast |-> NULL, slow |-> NULL, mid |-> NULL,
     l1 |-> NULL, l2 |-> NULL, mh |-> NULL, ptr |-> NULL]

Top(r) == r.stack[Len(r.stack)]

SetTop(r, f) == [r EXCEPT !.stack[Len(r.stack)] = f]

\* return v from the innermost mergesort: to the mergesort that called it for
\* its first half (which then calls itself for mid), to the one that called
\* it for its second half (which then enters mergeTwoLists), or to q_sort
\* (lines 359 to 362: node = mergesort(node); tmp = head; tmp->next = node)
Return(h, head, r, v) ==
    LET s == SubSeq(r.stack, 1, Len(r.stack) - 1) IN
    IF s = << >>
    THEN [h |-> [h EXCEPT !.next[head] = v],
          r |-> [r EXCEPT !.stack = s, !.node = v, !.tmp = head, !.pc = "relink"]]
    ELSE LET c == s[Len(s)] IN
         IF c.pc = "wait_l1"
         THEN [h |-> h,
               r |-> [r EXCEPT !.stack = Append([s EXCEPT ![Len(s)] =
                                                    [c EXCEPT !.l1 = v, !.pc = "wait_l2"]],
                                                Frame(c.mid))]]
         ELSE [h |-> h,
               r |-> [r EXCEPT !.stack = [s EXCEPT ![Len(s)] =
                                            [c EXCEPT !.l2 = v, !.pc = "merge",
                                                      !.mh = NULL, !.ptr = NULL]]]]

\* one evaluation of the for condition of mergeTwoLists with the body and the
\* increment, or the splice and the return that follow the loop
merge_step(h, head, r) ==
    LET f == Top(r) IN
    IF f.l1 # NULL /\ f.l2 # NULL
    THEN LET first == strcmp(h.value[f.l1], h.value[f.l2]) < 0
             node  == IF first THEN f.l1 ELSE f.l2
             h1    == IF f.ptr = NULL THEN h ELSE [h EXCEPT !.next[f.ptr] = node]
         IN  [h |-> h1,
              r |-> SetTop(r, [f EXCEPT !.mh  = IF f.ptr = NULL THEN node ELSE f.mh,
                                        !.ptr = node,
                                        !.l1  = IF first THEN h1.next[f.l1] ELSE f.l1,
                                        !.l2  = IF first THEN f.l2 ELSE h1.next[f.l2]])]
    ELSE LET rest == BitOr(f.l1, f.l2)
             h1   == IF f.ptr = NULL THEN h ELSE [h EXCEPT !.next[f.ptr] = rest]
         IN  Return(h1, head, r, IF f.ptr = NULL THEN rest ELSE f.mh)

\* mergesort with fast started one node ahead (fast = head->next)
mergesort_step_ahead(h, head, r) ==
    LET f == Top(r) IN
    IF f.pc = "entry"
    THEN IF h.next[f.head] = NULL THEN Return(h, head, r, f.head)
         ELSE [h |-> h, r |-> SetTop(r, [f EXCEPT !.pc = "split", !.fast = h.next[f.head],
                                                  !.slow = f.head])]
    ELSE IF f.pc = "split"
    THEN IF f.fast = NULL \/ h.next[f.fast] = NULL
         THEN [h |-> h, r |-> SetTop(r, [f EXCEPT !.pc = "cut"])]
         ELSE [h |-> h, r |-> SetTop(r, [f EXCEPT !.fast = h.next[h.next[f.fast]],
                                                  !.slow = h.next[f.slow]])]
    ELSE [h |-> [h EXCEPT !.next[h.prev[f.slow]] = NULL],
          r |-> [r EXCEPT !.stack = Append([r.stack EXCEPT ![Len(r.stack)] =
                                               [f EXCEPT !.pc = "wait_l1", !.mid = f.slow]],
                                           Frame(f.head))]]

\* mergesort before it calls itself: the base case, the fast/slow loop, the cut
mergesort_step(h, head, r) ==
    LET f == Top(r) IN
    IF f.pc = "entry"
    THEN IF h.next[f.head] = NULL THEN Return(h, head, r, f.head)
         ELSE [h |-> h, r |-> SetTop(r, [f EXCEPT !.pc = "split", !.fast = f.head,
                                                  !.slow = f.head])]
    ELSE IF f.pc = "split"
    THEN IF f.fast = NULL \/ h.next[f.fast] = NULL
         THEN [h |-> h, r |-> SetTop(r, [f EXCEPT !.pc = "cut"])]
         ELSE [h |-> h, r |-> SetTop(r, [f EXCEPT !.fast = h.next[h.next[f.fast]],
                                                  !.slow = h.next[f.slow]])]
    ELSE [h |-> [h EXCEPT !.next[h.prev[f.slow]] = NULL],
          r |-> [r EXCEPT !.stack = Append([r.stack EXCEPT ![Len(r.stack)] =
                                               [f EXCEPT !.pc = "wait_l1", !.mid = f.slow]],
                                           Frame(f.head))]]

q_sort_begin(h, head, r) ==
    IF head = NULL \/ list_empty(h, head) \/ list_is_singular(h, head) THEN Done(h, r, 0)
    ELSE LET node == h.next[head]
             h1   == [h EXCEPT !.next[h.prev[head]] = NULL]
             h2   == [h1 EXCEPT !.next[head] = NULL]
         IN  [h |-> h2, r |-> [r EXCEPT !.pc = "sorting", !.node = node,
                                        !.stack = <<Frame(node)>>]]

q_sort_step(h, head, r) ==
    IF r.pc = "sorting"
    THEN IF Top(r).pc = "merge" THEN merge_step(h, head, r) ELSE mergesort_step(h, head, r)
    ELSE IF h.next[r.tmp] # NULL
    THEN [h |-> [h EXCEPT !.prev[h.next[r.tmp]] = r.tmp],
          r |-> [r EXCEPT !.tmp = h.next[r.tmp]]]
    ELSE LET h4 == [h EXCEPT !.next[r.tmp] = head] IN
         Done([h4 EXCEPT !.prev[head] = r.tmp], r, 0)

\* the function called with the queue: its first step enters it with the
\* handle as argument, every later step goes on from where run stands
Advance(name, x) ==
    /\ SetHeap(x.h)
    /\ run' = x.r
    /\ op'  = name
    /\ old' = IF run.pc = "idle" THEN Contents ELSE old
    /\ ret' = x.r.retv
    /\ q'   = IF name = "q_free" /\ x.r.pc = "done" THEN NULL ELSE q
    /\ UNCHANGED <<held, arg, prior, buf, ins, rem, calls>>

Enter(name) == [Idle EXCEPT !.fn = name, !.head = q, !.h0 = Heap]

Running(name) == run.fn \in {"none", name} /\ run.pc # "done"

Step_q_free ==
    /\ Running("q_free")
    /\ Advance("q_free", IF run.pc = "idle" THEN q_free_begin(Heap, q, Enter("q_free"))
                         ELSE q_free_step(Heap, run.head, run))

Step_q_size ==
    /\ Running("q_size")
    /\ Advance("q_size", IF run.pc = "idle" THEN q_size_begin(Heap, q, Enter("q_size"))
                         ELSE q_size_step(Heap, run.head, run))

Step_q_delete_mid ==
    /\ Running("q_delete_mid")
    /\ Advance("q_delete_mid",
               IF run.pc = "idle" THEN q_delete_mid_begin(Heap, q, Enter("q_delete_mid"))
               ELSE q_delete_mid_step(Heap, run.head, run))

Step_q_delete_dup ==
    /\ Running("q_delete_dup")
    /\ Advance("q_delete_dup",
               IF run.pc = "idle" THEN q_delete_dup_begin(Heap, q, Enter("q_delete_dup"))
               ELSE q_delete_dup_step(Heap, run.head, run))

Step_q_swap ==
    /\ Running("q_swap")
    /\ Advance("q_swap", IF run.pc = "idle" THEN q_swap_begin(Heap, q, Enter("q_swap"))
                         ELSE q_swap_step(Heap, run.head, run))

Step_q_reverse ==
    /\ Running("q_reverse")
    /\ Advance("q_reverse",
               IF run.pc = "idle" THEN q_reverse_begin(Heap, q, Enter("q_reverse"))
               ELSE q_reverse_step(Heap, run.head, run))

Step_q_sort ==
    /\ Running("q_sort")
    /\ Advance("q_sort", IF run.pc = "idle" THEN q_sort_begin(Heap, q, Enter("q_sort"))
                         ELSE q_sort_step(Heap, run.head, run))

\* SpecSteps: one function, run to its return, on no queue or on any queue
\* of at most MaxLen strings. A call runs to completion without yielding:
\* a step that can be taken is taken.
InitSteps ==
    \/ Init
    \/ /\ \E strs \in StringSeqs(MaxLen) :
              InitWith(BuildQueue(q_new(EmptyHeap, TRUE).h, strs, 1))
       /\ ins = NoCount
       /\ rem = NoCount
       /\ calls = NoCount

NextSteps ==
    \/ Step_q_free
    \/ Step_q_size
    \/ Step_q_delete_mid
    \/ Step_q_delete_dup
    \/ Step_q_swap
    \/ Step_q_reverse
    \/ Step_q_sort

SpecSteps == InitSteps /\ [][NextSteps]_vars /\ WF_vars(NextSteps)

\* ------------------------------------------------------------------- claims
RECURSIVE Iter(_, _, _)
\* follow the link field f from node n, k times
Iter(f, n, k) ==
    IF k = 0 \/ n \notin Addrs THEN n ELSE Iter(f, f[n], k - 1)

\* the nodes met by following next from the sentinel, the sentinel included
Reach == { Iter(next, q, k) : k \in 0..(MaxNodes + 1) } \cap Addrs

Size == q_size(Heap, q)

Range(f) == { f[i] : i \in DOMAIN f }

NonDecreasing(strs) ==
    \A i \in 1..(Len(strs) - 1) : strcmp(strs[i], strs[i + 1]) <= 0

RemoveAt(seq, i) ==
    [j \in 1..(Len(seq) - 1) |-> IF j < i THEN seq[j] ELSE seq[j + 1]]

Reversed(seq) == [i \in 1..Len(seq) |-> seq[Len(seq) + 1 - i]]

\* position of address e in a sequence of addresses
Pos(seq, e) == CHOOSE i \in 1..Len(seq) : seq[i] = e

\* C1: after any sequence of calls on a ready queue the list is a well-formed
\* circular doubly-linked list: n.next.prev = n and n.prev.next = n for every
\* node reachable from the sentinel, and q_size + 1 steps along next, or along
\* prev, lead from the sentinel back to the sentinel.
C1_WellFormed ==
    q # NULL =>
        /\ \A n \in Reach :
              /\ next[n] \in Addrs
              /\ prev[n] \in Addrs
              /\ prev[next[n]] = n
              /\ next[prev[n]] = n
        /\ Iter(next, q, Size + 1) = q
        /\ Iter(prev, q, Size + 1) = q
        /\ \A k \in 1..Size : Iter(next, q, k) # q /\ Iter(prev, q, k) # q

C1_Witness ==
    /\ op = "q_sort"
    /\ Len(Queue) >= 3
    /\ Queue # OldQueue

\* C2: after q_sort the strings read first to last are non-decreasing and the
\* linked elements are exactly those linked before, each once.
C2_SortedPermutation ==
    op = "q_sort" =>
        /\ NonDecreasing(Strs)
        /\ Len(Contents) = Len(old)
        /\ Range(Contents) = Range(old)
        /\ Cardinality(Range(Queue)) = Len(Queue)

C2_Witness ==
    /\ op = "q_sort"
    /\ Len(old) >= 4
    /\ \A i \in 1..(Len(old) - 1) : strcmp(OldStrs[i], OldStrs[i + 1]) >= 0
    /\ \E i \in 1..(Len(old) - 1) : strcmp(OldStrs[i], OldStrs[i + 1]) > 0

\* C3: q_sort is stable: two elements with equal strings keep their order.
C3_Stable ==
    op = "q_sort" =>
        \A i, j \in 1..Len(old) :
            (i < j /\ strcmp(OldStrs[i], OldStrs[j]) = 0 /\ Len(Queue) = Len(old)
               /\ Range(Queue) = Range(OldQueue))
            => Pos(Queue, OldQueue[i]) < Pos(Queue, OldQueue[j])

\* C4: on a non-empty queue of n elements q_delete_mid returns true and removes
\* exactly the element at zero-based index floor(n/2); the others keep their order.
C4_DeleteMidIndex ==
    (op = "q_delete_mid" /\ Len(old) > 0) =>
        /\ ret = 1
        /\ Contents = RemoveAt(old, (Len(old) \div 2) + 1)
        /\ OldQueue[(Len(old) \div 2) + 1] \notin allocated

C4_Witness ==
    /\ op = "q_delete_mid"
    /\ Len(old) = 2
    /\ ret = 1

Unique(seq) ==
    SelectSeq(seq, LAMBDA x :
        Cardinality({ j \in 1..Len(seq) : strcmp(seq[j][2], x[2]) = 0 }) = 1)

\* C6: on a queue in ascending order q_delete_dup returns true and leaves exactly
\* the elements whose string occurred once, in their order: whole runs go, the
\* result is strictly ascending, a queue without duplicates is unchanged.
C6_DeleteDupRuns ==
    (op = "q_delete_dup" /\ q # NULL /\ NonDecreasing(OldStrs)) =>
        /\ ret = 1
        /\ Contents = Unique(old)
        /\ \A i \in 1..(Len(Strs) - 1) : strcmp(Strs[i], Strs[i + 1]) < 0
        /\ \A i \in 1..Len(old) : (old[i] \notin Range(Contents)) => old[i][1] \notin allocated

C6_Witness ==
    /\ op = "q_delete_dup"
    /\ Len(old) >= 3
    /\ NonDecreasing(OldStrs)
    /\ strcmp(OldStrs[Len(old)], OldStrs[Len(old) - 1]) = 0
    /\ strcmp(OldStrs[1], OldStrs[2]) < 0
    /\ Len(Queue) = 1

\* e1,e2,e3,e4,... becomes e2,e1,e4,e3,...; an odd last element stays
SwappedPairs(seq) ==
    [i \in 1..Len(seq) |->
        IF i % 2 = 1 THEN (IF i + 1 <= Len(seq) THEN seq[i + 1] ELSE seq[i])
        ELSE seq[i - 1]]

\* C7: after q_swap the elements at positions 2k-1 and 2k are exchanged for
\* every k with 2k <= n, and an odd last element stays last.
C7_SwapPairs ==
    op = "q_swap" => Contents = SwappedPairs(old)

C7_Witness ==
    /\ op = "q_swap"
    /\ Len(old) = 3
    /\ Contents # old

\* C8: one q_reverse yields the elements in exactly the reverse order, and
\* q_reverse applied twice restores the original order.
C8_ReverseInvolution ==
    op = "q_reverse" =>
        /\ Contents = Reversed(old)
        /\ prior.op = "q_reverse" => Contents = prior.old

C8_Witness ==
    /\ op = "q_reverse"
    /\ prior.op = "q_reverse"
    /\ Len(Queue) >= 3
    /\ Contents # old
    /\ Contents = prior.old

\* C9: after any sequence of q_insert_head, q_insert_tail, q_remove_head and
\* q_remove_tail on a ready queue that starts empty, q_size is the number of
\* inserts that returned true minus the number of removes that returned an element.
C9_SizeIsInsertsMinusRemoves ==
    Size = ins - rem

C9_Witness ==
    /\ ins >= 3
    /\ rem >= 2
    /\ Size >= 1
    /\ op = "q_insert_tail"
    /\ ret = 0

\* C10: a successful q_insert_head(s) immediately followed by q_remove_head (and
\* q_insert_tail(s) followed by q_remove_tail) returns an element whose string
\* equals s and leaves the queue with the size and the elements it had before
\* the insert.
C10_RoundTrip ==
    (op \in {"q_remove_head", "q_remove_tail"} /\ prior.op # "none" /\ prior.ret = 1) =>
        /\ ret # NULL
        /\ ret \in allocated
        /\ strcmp(value[ret], prior.arg) = 0
        /\ value[ret] = prior.arg
        /\ Size = Len(prior.old)
        /\ Contents = prior.old

C10_Witness ==
    /\ op = "q_remove_tail"
    /\ prior.op = "q_insert_tail"
    /\ prior.ret = 1
    /\ Len(prior.old) >= 2
    /\ ret # NULL


\* C11: a q_insert_head or q_insert_tail that fails (absent queue, node
\* allocation failure, string duplication failure) returns false and leaves the
\* queue unmodified: same elements in the same order, no half-built node linked,
\* and the node allocated before a failed strdup is released again.
C11_FailedInsertNoChange ==
    [][ (op' \in {"q_insert_head", "q_insert_tail"} /\ ret' = 0) =>
            /\ UNCHANGED <<q, next, prev, value, allocated, held>>
            /\ old' = Contents ]_vars

C11_Witness ==
    /\ op = "q_insert_tail"
    /\ ret = 0
    /\ q # NULL
    /\ Len(Queue) >= 1
    /\ Contents = old
    /\ allocated = Range(Queue) \cup held


\* the value each function documents for an absent or empty queue
NoOpSignal(name, handle) ==
    CASE name = "q_size"        -> 0
      [] name = "q_delete_mid"  -> 0
      [] name = "q_delete_dup"  -> (IF handle = NULL THEN 0 ELSE 1)
      [] name = "q_remove_head" -> NULL
      [] name = "q_remove_tail" -> NULL
      [] OTHER                  -> 0

\* C12: on an absent or empty queue q_size returns 0, q_delete_mid false,
\* q_delete_dup false for an absent handle and true for an empty or one-element
\* queue, q_remove_head and q_remove_tail return NULL, q_swap, q_reverse, q_sort
\* and q_free (absent handle) do nothing; nothing is changed, so an empty queue
\* stays empty and well-formed.
C12_AbsentOrEmptyNoOp ==
    [][ /\ ( /\ Queue = << >>
             /\ op' \in {"q_size", "q_delete_mid", "q_delete_dup", "q_remove_head",
                         "q_remove_tail", "q_swap", "q_reverse", "q_sort"} )
           => ( /\ UNCHANGED <<q, next, prev, value, allocated, held>>
                /\ ret' = NoOpSignal(op', q) )
        /\ (Len(Queue) = 1 /\ op' = "q_delete_dup")
           => (UNCHANGED <<q, next, prev, value, allocated, held>> /\ ret' = 1)
        /\ (q = NULL /\ op' = "q_free")
           => UNCHANGED <<q, next, prev, value, allocated, held>> ]_vars

C12_Witness ==
    /\ op = "q_delete_dup"
    /\ q = NULL
    /\ ret = 0
    /\ allocated = held

\* C13: every allocated element is either linked in the queue exactly once or
\* held by the caller after a q_remove_*; q_remove_* do not release what they
\* return; q_delete_mid and q_delete_dup release exactly what they unlink; no
\* released element is reachable from the sentinel; after q_free no element of
\* the queue remains allocated.
C13_Ownership ==
    /\ allocated = Range(Queue) \cup held
    /\ Range(Queue) \cap held = {}
    /\ Cardinality(Range(Queue)) = Len(Queue)
    /\ \A e \in Elems \ allocated : (q # NULL => e \notin Reach) /\ value[e] = NoStr
    /\ (op \in {"q_remove_head", "q_remove_tail"} /\ ret # NULL) =>
            /\ ret \in held
            /\ ret \in allocated
            /\ ret \in Range(OldQueue)
            /\ <<ret, value[ret]>> \in Range(old)
    /\ op \in {"q_delete_mid", "q_delete_dup"} =>
            /\ (Range(OldQueue) \ Range(Queue)) \cap allocated = {}
            /\ Range(Queue) \subseteq Range(OldQueue)
    /\ op = "q_free" => (q = NULL /\ Range(OldQueue) \cap allocated = {} /\ allocated = held)

C13_Witness ==
    /\ op = "q_free"
    /\ Len(old) >= 2
    /\ held # {}
    /\ allocated = held


\* C14: the linked structure refines a sequence of strings: q_insert_head(s)
\* prepends s, q_insert_tail(s) appends s, q_remove_head unlinks and returns the
\* first element, q_remove_tail the last, and the other elements keep their order.
C14_RefinesSequence ==
    /\ (op = "q_insert_head" /\ ret = 1) =>
            /\ Strs = <<arg>> \o OldStrs
            /\ Tail(Contents) = old
    /\ (op = "q_insert_tail" /\ ret = 1) =>
            /\ Strs = Append(OldStrs, arg)
            /\ SubSeq(Contents, 1, Len(old)) = old
            /\ Len(Contents) = Len(old) + 1
    /\ (op = "q_remove_head" /\ ret # NULL) =>
            /\ ret = OldQueue[1]
            /\ Contents = Tail(old)
    /\ (op = "q_remove_tail" /\ ret # NULL) =>
            /\ ret = OldQueue[Len(old)]
            /\ Contents = SubSeq(old, 1, Len(old) - 1)
    /\ (op \in {"q_remove_head", "q_remove_tail"} /\ ret = NULL) => old = << >>

C14_Witness ==
    /\ op = "q_remove_head"
    /\ Len(old) >= 3
    /\ ret = OldQueue[1]
    /\ Len(Queue) = Len(old) - 1

\* C15: q_sort on a queue whose strings are already non-decreasing (equal
\* strings included) leaves the sequence of elements exactly as it was.
C15_SortedInputUnchanged ==
    (op = "q_sort" /\ NonDecreasing(OldStrs)) => Contents = old

\* C16: q_swap, q_reverse and q_sort only relink: they allocate and release no
\* element, the set of linked elements is the same before and after, every
\* string is unchanged and the sentinel is the same node.
C16_PureRelinking ==
    [][ op' \in {"q_swap", "q_reverse", "q_sort"} =>
            /\ allocated' = allocated
            /\ value' = value
            /\ held' = held
            /\ q' = q
            /\ Range(Queue') = Range(Queue)
            /\ Len(Queue') = Len(Queue) ]_vars

C16_Witness ==
    /\ op = "q_reverse"
    /\ Len(old) >= 4
    /\ Queue # OldQueue
    /\ Range(Queue) = Range(OldQueue)


Min(a, b) == IF a <= b THEN a ELSE b

\* the buffer holds the first k bytes of str and then a terminator
HoldsPrefix(b, str, k) ==
    /\ k + 1 <= b.cap
    /\ \A i \in 1..k : b.bytes[i] = str[i]
    /\ b.bytes[k + 1] = 0

\* C17: given an output buffer of capacity c (any c >= 0, c - 1 taken in size_t
\* arithmetic) q_remove_head and q_remove_tail leave in it the first
\* min(len, c-1) bytes of the element's string and a terminator, and write no
\* byte outside the c bytes.
C17_CopyOutInBounds ==
    (op \in {"q_remove_head", "q_remove_tail"} /\ ret # NULL /\ buf # NoBuf) =>
        /\ ~buf.oob
        /\ HoldsPrefix(buf, value[ret], Min(strlen(value[ret]), (buf.cap - 1) % SizeMod))

\* the same for a buffer of at least one byte
C17_CopyOutFromOneByte ==
    (op \in {"q_remove_head", "q_remove_tail"} /\ ret # NULL /\ buf.cap >= 1) =>
        /\ ~buf.oob
        /\ HoldsPrefix(buf, value[ret], Min(strlen(value[ret]), buf.cap - 1))

\* the function that ran step by step left what the same function leaves
\* when it is taken as one call
StepsAgree ==
    run.pc = "done" =>
        LET h0 == run.h0
            l  == run.head IN
        /\ run.fn = "q_free"       => Heap = q_free(h0, l)
        /\ run.fn = "q_size"       => Heap = h0 /\ ret = q_size(h0, l)
        /\ run.fn = "q_delete_mid" => Heap = q_delete_mid(h0, l).h /\ ret = q_delete_mid(h0, l).ret
        /\ run.fn = "q_delete_dup" => Heap = q_delete_dup(h0, l).h /\ ret = q_delete_dup(h0, l).ret
        /\ run.fn = "q_swap"       => Heap = q_swap(h0, l)
        /\ run.fn = "q_reverse"    => Heap = q_reverse(h0, l)
        /\ run.fn = "q_sort"       => Heap = q_sort(h0, l)

RECURSIVE ChainFrom(_, _, _)
\* the nodes met by following nx from n up to the first value that is no element
ChainFrom(nx, n, fuel) ==
    IF n \notin Elems \/ fuel = 0 THEN << >>
    ELSE <<n>> \o ChainFrom(nx, nx[n], fuel - 1)

Chain(nx, n) == ChainFrom(nx, n, MaxNodes + 1)

\* the chain that starts at n is not empty and ends with a null next pointer
NullTerminated(nx, n) ==
    /\ Chain(nx, n) # << >>
    /\ Len(Chain(nx, n)) <= MaxNodes
    /\ Iter(nx, n, Len(Chain(nx, n))) = NULL

\* mergesort stands right before its cut (line 296)
AtCut == run.fn = "q_sort" /\ run.pc = "sorting" /\ Top(run).pc = "cut"

\* C18: every operation terminates on every well-formed queue (and on no
\* queue): q_size, q_delete_mid, q_swap, q_delete_dup, q_reverse, q_free and
\* q_sort each reach their return. Every cut mergesort makes splits a
\* null-terminated chain of k >= 2 nodes into its first k div 2 nodes and its
\* last k - k div 2 nodes, both non-empty and null-terminated.
C18_Terminates ==
    /\ <>(run.pc = "done")
    /\ [][ AtCut =>
             LET f     == Top(run)
                 chain == Chain(next, f.head)
                 k     == Len(chain)
                 left  == Chain(next', f.head)
                 right == Chain(next', f.slow) IN
             /\ k >= 2
             /\ NullTerminated(next, f.head)
             /\ NullTerminated(next', f.head)
             /\ NullTerminated(next', f.slow)
             /\ Len(left) = k \div 2
             /\ Len(right) = k - (k \div 2)
             /\ left \o right = chain
             /\ Top(run').pc = "entry" /\ Top(run').head = f.head ]_vars

\* q_sort returned from a queue of five strings it had to reorder
C18_Witness ==
    /\ run.fn = "q_sort"
    /\ run.pc = "done"
    /\ Len(old) = 5
    /\ Len(Queue) = 5
    /\ Queue # OldQueue

\* C19: while q_sort runs, no prev pointer changes before the re-link loop;
\* whenever mergesort is about to cut, slow->prev is the node right before
\* slow in the next-order of the chain being split (so neither the sentinel
\* nor a node outside that chain), and slow is the node at index k div 2 of
\* the k nodes of that chain.
C19_CutBeforeMid ==
    /\ [](AtCut =>
             LET f     == Top(run)
                 chain == Chain(next, f.head) IN
             /\ f.slow \in Range(chain)
             /\ Pos(chain, f.slow) = (Len(chain) \div 2) + 1
             /\ Pos(chain, f.slow) >= 2
             /\ prev[f.slow] = chain[Pos(chain, f.slow) - 1]
             /\ prev[f.slow] # run.head)
    /\ [][ (op' = "q_sort" /\ prev' # prev) => run.pc = "relink" ]_vars

\* a cut is due while some prev pointer is stale: a merge has already put a
\* node behind another node than the one its prev names
C19_Witness ==
    /\ AtCut
    /\ \E e \in Elems : next[e] \in Elems /\ prev[next[e]] # e

====
